---- MODULE Spec2Model ----
(***************************************************************************)
(* A model of ping.py (PingTools): target resolution (parse_targets), the  *)
(* three probers and their dispatch wrapper (run_test), the thread-pool    *)
(* scheduling pass of main, and the result aggregation of main.            *)
(*                                                                         *)
(* Text is a sequence of tokens.  A token is a punctuation character or a  *)
(* maximal run of characters of one lexical class (an IPv4 literal, an     *)
(* IPv6 literal, a digit string, a host name, a non-numeric word).         *)
(* IPv4 addresses are their 32-bit values.  IPv6 addresses are the low     *)
(* bits below the fixed prefix 2001:db8::, so 2001:db8::1 is V6(1).        *)
(* Times are microseconds; a latency rounded to two decimals of a          *)
(* millisecond is a multiple of 10 microseconds.                           *)
(* main is modelled from the point where ip.txt has been read.             *)
(***************************************************************************)
EXTENDS Integers, Sequences, FiniteSets, TLC

VARIABLES
    phase,            \* the position of main
    args,             \* argparse namespace (main, lines 159-170)
    lines,            \* ip.txt as read by readlines()
    idx,              \* position of parse_targets' for loop
    targets,          \* parse_targets' set `targets`
    trace,            \* per processed line: how it ended and what it passed to targets.add
    queue,            \* executor work queue: submitted, not yet started (FIFO)
    running,          \* targets whose run_test is executing in a worker thread
    futures,          \* finished futures: target -> returned outcome or raised exception
    yielded,          \* futures as_completed has handed to main's loop
    results,          \* main's list `results`
    success_results,  \* main's list `success_results`
    failed_results,   \* main's list `failed_results`
    written           \* report files written so far

vars == <<phase, args, lines, idx, targets, trace, queue, running, futures,
          yielded, results, success_results, failed_results, written>>

----------------------------------------------------------------------------
(* Bounds of the model *)

\* lines of ip.txt in the resolution runs
MaxLines == 3
\* lines of ip.txt in the full runs
MaxRunLines == 3
\* outcomes in the aggregation runs
MaxResults == 3

----------------------------------------------------------------------------
(* Program constants *)

\* TIMEOUT_SECONDS = 1.5, in microseconds
TIMEOUT_US == 1500000
\* TIMEOUT_THRESHOLD_MS = TIMEOUT_SECONDS * 1000 - 10, in microseconds
TIMEOUT_THRESHOLD_US == TIMEOUT_US - 10000
\* parse_targets(lines, ipv6_sample_limit=10, default_port=443)
PARSE_DEFAULT_PORT == 443
\* MAX_WORKERS = 50, scaled down so that a run of MaxRunLines targets can
\* fill the pool and leave a task waiting
MAX_WORKERS == 2

\* an optional value: None, or Some(x)
None == <<>>
Some(x) == <<x>>

----------------------------------------------------------------------------
(* Text *)

Tok(k, v) == [k |-> k, v |-> v]
LB == Tok("[", 0)
RB == Tok("]", 0)
COLON == Tok(":", 0)
SLASH == Tok("/", 0)
HASH == Tok("#", 0)
WS == Tok(" ", 0)
V4(a) == Tok("v4", a)
V6(a) == Tok("v6", a)
Num(n) == Tok("num", n)
Name(i) == Tok("name", i)
Word(i) == Tok("word", i)

\* the address 10.0.0.0
Net10 == 10 * 16777216

RECURSIVE LStrip(_)
LStrip(s) == IF s # <<>> /\ Head(s) = WS THEN LStrip(Tail(s)) ELSE s

RECURSIVE RStrip(_)
RStrip(s) ==
    IF s # <<>> /\ s[Len(s)] = WS THEN RStrip(SubSeq(s, 1, Len(s) - 1)) ELSE s

\* str.strip()
Strip(s) == RStrip(LStrip(s))

\* number of ':' characters a token holds; an IPv6 literal holds at least two
ColonsIn(t) == CASE t.k = ":" -> 1 [] t.k = "v6" -> 2 [] OTHER -> 0

RECURSIVE CountColons(_)
\* line.count(":")
CountColons(s) == IF s = <<>> THEN 0 ELSE ColonsIn(Head(s)) + CountColons(Tail(s))

\* "/" in line
HasSlash(s) == \E i \in 1..Len(s) : s[i] = SLASH

\* position of the only ':' of a text that holds exactly one
ColonAt(s) == CHOOSE i \in 1..Len(s) : s[i] = COLON

\* the character class [0-9a-fA-F:]
HexColonTok(t) == t.k \in {"v6", "num", ":"}

\* regex `$`: the end of the text (a stripped text ends with no newline)
AtEnd(s, i) == i = Len(s)

\* re.compile(r'^$$([0-9a-fA-F:]+)$$(?::(\d+))?$').match(line).  The pattern
\* asks for the end of the text at offset 0 (`^$$`), then for one or more
\* characters of the class (group 1), then for the end of the text again
\* (`$$`), then for an optional ':' and digits (group 2), then for the end.
\* The set of offsets at which group 1 can end in a match:
PatternGroupEnds(s) ==
    { i \in 1..Len(s) :
        /\ AtEnd(s, 0)
        /\ \A j \in 1..i : HexColonTok(s[j])
        /\ AtEnd(s, i)
        /\ \/ AtEnd(s, i)
           \/ /\ i + 2 <= Len(s)
              /\ s[i + 1] = COLON
              /\ s[i + 2].k = "num"
              /\ AtEnd(s, i + 2) }

\* the match object (group 1, group 2), or None
ipv6_port_pattern_match(s) ==
    IF PatternGroupEnds(s) = {} THEN None
    ELSE LET i == CHOOSE e \in PatternGroupEnds(s) :
                      \A f \in PatternGroupEnds(s) : f <= e
         IN  Some([g1 |-> SubSeq(s, 1, i),
                   g2 |-> IF i = Len(s) THEN None ELSE Some(s[i + 2].v)])

----------------------------------------------------------------------------
(* ipaddress *)

RECURSIVE Pow2(_)
Pow2(n) == IF n = 0 THEN 1 ELSE 2 * Pow2(n - 1)

AddrBits(version) == IF version = 6 THEN 128 ELSE 32

\* ipaddress.ip_address(text) succeeds (no ValueError)
IsAddressLiteral(s) == Len(s) = 1 /\ s[1].k \in {"v4", "v6"}

\* ipaddress.ip_network(text, strict=False) succeeds (no ValueError)
IsNetworkLiteral(s) ==
    /\ Len(s) = 3
    /\ s[1].k \in {"v4", "v6"}
    /\ s[2] = SLASH
    /\ s[3].k = "num"
    /\ s[3].v >= 0
    /\ s[3].v <= AddrBits(IF s[1].k = "v6" THEN 6 ELSE 4)

\* ipaddress.ip_network(text, strict=False): host bits are masked off
ip_network(s) ==
    LET version == IF s[1].k = "v6" THEN 6 ELSE 4
        hostbits == AddrBits(version) - s[3].v
    IN  [version |-> version,
         prefixlen |-> s[3].v,
         hostbits |-> hostbits,
         \* the network address; a network too large for the model's integers
         \* is kept by its prefix alone
         base |-> IF hostbits > 16 THEN 0 ELSE s[1].v - (s[1].v % Pow2(hostbits))]

\* the addresses net.hosts() yields, in address order
HostValues(net) ==
    LET size == Pow2(net.hostbits)
        first == IF net.hostbits <= 1 THEN net.base ELSE net.base + 1
        last == IF net.hostbits <= 1 \/ net.version = 6
                THEN net.base + size - 1
                ELSE net.base + size - 2
    IN  [i \in 1..(last - first + 1) |-> first + i - 1]

\* str(ip) of a host of the network
HostText(net, a) == IF net.version = 6 THEN <<V6(a)>> ELSE <<V4(a)>>

\* list(net.hosts()) raises MemoryError: a list holds at most
\* PY_SSIZE_T_MAX / sizeof(void*) = 2^60 - 1 items, whatever the machine
ListRaisesMemoryError(net) == net.hostbits > 60

\* seq[:n]
SliceTo(seq, n) ==
    IF n >= 0
    THEN SubSeq(seq, 1, IF n < Len(seq) THEN n ELSE Len(seq))
    ELSE SubSeq(seq, 1, IF Len(seq) + n > 0 THEN Len(seq) + n ELSE 0)

Range(seq) == {seq[i] : i \in DOMAIN seq}

----------------------------------------------------------------------------
(* Target resolution: resolve_domain and parse_targets *)

Target(ip, port) == [ip |-> ip, port |-> port]

\* resolve_domain(domain, default_port).  `answer` is what getaddrinfo gives:
\* the addresses of its infos, or <<>> when it raises gaierror or timeout
resolve_domain(domain, default_port, answer) ==
    [i \in 1..Len(answer) |-> Target(<<answer[i]>>, default_port)]

LineResult(status, added, tg) ==
    [status |-> status, added |-> added, targets |-> tg \cup added]

\* the `except Exception` clause of the loop body: a message is printed, the
\* set is left as it is
LineFailed(tg) == [status |-> "failed", added |-> {}, targets |-> tg]

\* branch 2 of the loop body: a line holding "/"
parse_cidr(line, tg, ipv6_sample_limit, default_port) ==
    IF ~IsNetworkLiteral(line) THEN LineFailed(tg)
    ELSE LET net == ip_network(line)
             sampled == net.version = 6 /\ ipv6_sample_limit # 0
         IN  IF sampled /\ ListRaisesMemoryError(net) THEN LineFailed(tg)
             ELSE LET sampled_hosts ==
                          IF sampled
                          THEN SliceTo(HostValues(net), ipv6_sample_limit)
                          ELSE HostValues(net)
                  IN  LineResult("ok",
                          {Target(HostText(net, sampled_hosts[i]), default_port) :
                               i \in DOMAIN sampled_hosts},
                          tg)

\* branch 3 of the loop body: a line holding exactly one ":"
parse_addr_port(line, tg) ==
    LET i == ColonAt(line)
        ip == SubSeq(line, 1, i - 1)
        port == SubSeq(line, i + 1, Len(line))
    IN  \* int(port) raises ValueError unless the text is a digit string
        IF Len(port) = 1 /\ port[1].k = "num"
        THEN LineResult("ok", {Target(ip, port[1].v)}, tg)
        ELSE LineFailed(tg)

\* one pass of the body of parse_targets' for loop over one line
parse_line(raw, tg, ipv6_sample_limit, default_port, answer) ==
    LET line == Strip(raw)
        match == ipv6_port_pattern_match(line)
    IN  IF line = <<>> \/ Head(line) = HASH THEN LineResult("skipped", {}, tg)
        ELSE IF match # None
        THEN LineResult("ok",
                 {Target(match[1].g1,
                         IF match[1].g2 # None THEN match[1].g2[1] ELSE default_port)},
                 tg)
        ELSE IF HasSlash(line)
        THEN parse_cidr(line, tg, ipv6_sample_limit, default_port)
        ELSE IF CountColons(line) = 1
        THEN parse_addr_port(line, tg)
        ELSE IF IsAddressLiteral(line)
        THEN LineResult("ok", {Target(line, default_port)}, tg)
        ELSE LineResult("ok", Range(resolve_domain(line, default_port, answer)), tg)

\* a loop inside the try statement: a failed line ends the loop
NextLineAborting(status, i, n) == IF status = "failed" THEN n + 1 ELSE i + 1

\* where the for loop goes after a line: the try statement is inside the loop
\* body, so a failed line is followed by the next one
NextLine(status, i, n) == i + 1

\* the default_port parse_targets runs with when main calls it:
\* parse_targets(lines, ipv6_sample_limit=args.ipv6_limit) passes none, so
\* the parameter keeps its default
MainDefaultPort(a) == PARSE_DEFAULT_PORT

\* what getaddrinfo may answer for a text: a host name may resolve to one or
\* more addresses (of both families, with repeats) or fail; no other text of
\* the input vocabulary resolves
DnsAnswers(raw) ==
    IF Len(Strip(raw)) = 1 /\ Strip(raw)[1].k = "name"
    THEN {<<>>, <<V4(Net10 + 9)>>, <<V4(Net10 + 9), V4(Net10 + 9), V6(9)>>}
    ELSE {<<>>}

\* the lines ip.txt is drawn from; each ends with its newline
Vocabulary ==
    { <<WS>>,                                         \* blank
      <<HASH, Name(1), WS>>,                          \* # comment
      <<V4(Net10 + 1), WS>>,                          \* 10.0.0.1
      <<V4(Net10 + 1), COLON, Num(8443), WS>>,        \* 10.0.0.1:8443
      <<V4(Net10 + 1), COLON, Word(1), WS>>,          \* 10.0.0.1:44x
      <<LB, V6(1), RB, COLON, Num(8080), WS>>,        \* [2001:db8::1]:8080
      <<LB, V6(1), RB, WS>>,                          \* [2001:db8::1]
      <<V4(Net10), SLASH, Num(30), WS>>,              \* 10.0.0.0/30
      <<V4(Net10 + 5), SLASH, Num(29), WS>>,          \* 10.0.0.5/29
      <<V4(Net10), SLASH, Num(33), WS>>,              \* 10.0.0.0/33
      <<V6(0), SLASH, Num(126), WS>>,                 \* 2001:db8::/126
      <<V6(0), SLASH, Num(64), WS>>,                  \* 2001:db8::/64
      <<Name(1), WS>> }                               \* example.com

RECURSIVE SeqsUpTo(_, _)
SeqsUpTo(S, n) ==
    IF n = 0 THEN {<<>>}
    ELSE LET shorter == SeqsUpTo(S, n - 1)
         IN  shorter \cup {Append(q, x) : q \in shorter, x \in S}

\* enumerating every host of a 2^64-host network does not end: no input
\* pairs such a line with an unlimited sample
Enumerable(ls, limit) ==
    \A i \in DOMAIN ls :
        LET line == Strip(ls[i])
        IN  HasSlash(line) /\ IsNetworkLiteral(line) /\ ip_network(line).hostbits > 16
                => limit # 0

DefaultArgs ==
    [mode |-> "tcp", port |-> 443, top |-> 10, min |-> None, max |-> None,
     verbose |-> FALSE, ipv6_limit |-> 10]

\* nothing resolved, nothing scheduled, nothing collected
Idle ==
    /\ idx = 1
    /\ targets = {}
    /\ trace = <<>>
    /\ queue = <<>>
    /\ running = {}
    /\ futures = <<>>
    /\ yielded = {}
    /\ results = <<>>
    /\ success_results = <<>>
    /\ failed_results = <<>>
    /\ written = {}

InitResolve ==
    /\ phase = "parse"
    /\ \E port \in {443, 8080}, limit \in {0, 2} :
           args = [DefaultArgs EXCEPT !.port = port, !.ipv6_limit = limit]
    /\ lines \in SeqsUpTo(Vocabulary, MaxLines)
    /\ Enumerable(lines, args.ipv6_limit)
    /\ Idle

\* one line of parse_targets' loop
ProcessLine ==
    /\ phase = "parse"
    /\ idx <= Len(lines)
    /\ \E answer \in DnsAnswers(lines[idx]) :
           LET r == parse_line(lines[idx], targets, args.ipv6_limit,
                               MainDefaultPort(args), answer)
           IN  /\ targets' = r.targets
               /\ trace' = Append(trace, [status |-> r.status, added |-> r.added])
               /\ idx' = NextLine(r.status, idx, Len(lines))
    /\ UNCHANGED <<phase, args, lines, queue, running, futures, yielded, results,
                   success_results, failed_results, written>>

\* the loop is over: return list(targets); main has raw_ips.  The order of the
\* list is the set's iteration order, which the submitting loop observes
FinishParse ==
    /\ phase = "parse"
    /\ idx > Len(lines)
    /\ phase' = "submit"
    /\ UNCHANGED <<args, lines, idx, targets, trace, queue, running, futures,
                   yielded, results, success_results, failed_results, written>>

NextResolve == ProcessLine \/ FinishParse

SpecResolve == InitResolve /\ [][NextResolve]_vars

----------------------------------------------------------------------------
(* The probers and run_test *)

\* What the operating system and the network do to one probe:
\*   print    "ok" | "oserror"   the verbose print to stdout (a closed pipe, a full disk)
\*   sock     "ok" | "oserror"   creating the socket and sending (raw sockets need privilege)
\*   reply    "reply" | "timeout" | "oserror"   recvfrom, or connect
\*   elapsed  microseconds between the two readings of time.time(), taken as
\*            non-decreasing
Env(pr, so, re, el) == [print |-> pr, sock |-> so, reply |-> re, elapsed |-> el]

\* a wait that times out lasts the whole timeout
EnvOk(env) == env.reply = "timeout" => env.elapsed >= TIMEOUT_US

Envs ==
    {Env("oserror", "ok", "reply", 20000),
     Env("ok", "oserror", "reply", 0),
     Env("ok", "ok", "oserror", 300)}
    \cup {Env("ok", "ok", "reply", e) : e \in {0, 20004, 1489990, 1490000, 1495000}}
    \cup {Env("ok", "ok", "timeout", e) : e \in {TIMEOUT_US, TIMEOUT_US + 300}}

\* the environments of the full runs
SchedEnvs ==
    {Env("oserror", "ok", "reply", 20000),
     Env("ok", "ok", "reply", 20004),
     Env("ok", "ok", "timeout", TIMEOUT_US + 300)}

\* round(latency, 2) of a latency in milliseconds: the nearest multiple of 10 us
Round2(us) == ((us + 5) \div 10) * 10

\* (time.time() - start_time) * 1000
Latency(env) == env.elapsed

Outcome(label, latency, status) ==
    [label |-> label, latency |-> latency, status |-> status]

\* f"{ip}:{port}"
IpPortLabel(ip, port) == [ip |-> ip, port |-> Some(port)]
\* ip
IpLabel(ip) == [ip |-> ip, port |-> None]

\* a timeout clause that reports the elapsed wait, as the other probers do
TcpTimeoutWithElapsed(ip, port, env) ==
    Outcome(IpPortLabel(ip, port), Some(Round2(Latency(env))), "Timeout")

\* what test_tcp_latency returns from its `except socket.timeout` clause
TcpTimeoutOutcome(ip, port, env) == Outcome(IpPortLabel(ip, port), None, "Timeout")

\* how a prober classifies a measured latency against TIMEOUT_THRESHOLD_MS
Classify(latency) == IF latency >= TIMEOUT_THRESHOLD_US THEN "Timeout" ELSE "Success"

test_udp_latency(ip, port, env) ==
    IF ~IsAddressLiteral(ip) \/ env.sock = "oserror" \/ env.reply = "oserror"
    THEN Outcome(IpPortLabel(ip, port), None, "Error")
    ELSE Outcome(IpPortLabel(ip, port), Some(Round2(Latency(env))), Classify(Latency(env)))

test_tcp_latency(ip, port, env) ==
    IF ~IsAddressLiteral(ip) \/ env.sock = "oserror" \/ env.reply = "oserror"
    THEN Outcome(IpPortLabel(ip, port), None, "Error")
    ELSE IF env.reply = "timeout"
    THEN TcpTimeoutOutcome(ip, port, env)
    ELSE Outcome(IpPortLabel(ip, port), Some(Round2(Latency(env))), "Success")

\* the socket is AF_INET: an IPv6 literal is refused by sendto; a host name
\* is looked up by sendto, which may fail
test_ping_latency(ip, env) ==
    IF (IsAddressLiteral(ip) /\ ip[1].k = "v6") \/ env.sock = "oserror"
       \/ env.reply = "oserror"
    THEN Outcome(IpLabel(ip), None, "Error")
    ELSE Outcome(IpLabel(ip), Some(Round2(Latency(env))), Classify(Latency(env)))

Returned(outcome) == [kind |-> "returned", out |-> Some(outcome)]
Raised == [kind |-> "raised", out |-> None]

\* run_test(ip, mode, port, verbose): what the task's future ends with
run_test(ip, mode, port, verbose, env) ==
    IF verbose /\ env.print = "oserror" THEN Raised
    ELSE IF mode = "udp" THEN Returned(test_udp_latency(ip, port, env))
    ELSE IF mode = "tcp" THEN Returned(test_tcp_latency(ip, port, env))
    ELSE IF mode = "ping" THEN Returned(test_ping_latency(ip, env))
    ELSE Returned(Outcome(IpLabel(ip), None, "Unknown mode"))

----------------------------------------------------------------------------
(* The scheduling pass of main: ThreadPoolExecutor and as_completed *)

Submitted == Range(queue) \cup running \cup DOMAIN futures

\* a pool that starts a thread per task
WorkerFreeUnbounded(busy) == TRUE

\* ThreadPoolExecutor(max_workers=MAX_WORKERS): a worker thread is free
WorkerFree(busy) == Cardinality(busy) < MAX_WORKERS

\* executor.submit(run_test, ip, args.mode, port, args.verbose) for the next
\* item of raw_ips; the list's order is the set's iteration order
Submit ==
    /\ phase = "submit"
    /\ \E t \in targets \ Submitted : queue' = Append(queue, t)
    /\ UNCHANGED <<phase, args, lines, idx, targets, trace, running, futures,
                   yielded, results, success_results, failed_results, written>>

\* a worker thread takes the oldest work item
StartTask ==
    /\ queue # <<>>
    /\ WorkerFree(running)
    /\ running' = running \cup {Head(queue)}
    /\ queue' = Tail(queue)
    /\ UNCHANGED <<phase, args, lines, idx, targets, trace, futures, yielded,
                   results, success_results, failed_results, written>>

\* a worker thread's run_test ends; its future holds the result or the exception
FinishTask(E) ==
    /\ \E t \in running, env \in E :
           /\ EnvOk(env)
           /\ futures' = futures @@ (t :> run_test(t.ip, args.mode, t.port,
                                                   args.verbose, env))
           /\ running' = running \ {t}
    /\ UNCHANGED <<phase, args, lines, idx, targets, trace, queue, yielded,
                   results, success_results, failed_results, written>>

\* the dict comprehension is over: the as_completed loop starts
BeginCollect ==
    /\ phase = "submit"
    /\ targets \subseteq Submitted
    /\ phase' = "collect"
    /\ UNCHANGED <<args, lines, idx, targets, trace, queue, running, futures,
                   yielded, results, success_results, failed_results, written>>

\* what results.append(future.result()) leaves in main
CollectResult(fut, res, ph) ==
    IF fut.kind = "returned"
    THEN [results |-> Append(res, fut.out[1]), phase |-> ph]
    ELSE [results |-> res, phase |-> "unwinding"]

\* one pass of the as_completed loop: results.append(future.result())
Collect ==
    /\ phase = "collect"
    /\ \E t \in DOMAIN futures \ yielded :
           LET c == CollectResult(futures[t], results, phase)
           IN  /\ yielded' = yielded \cup {t}
               /\ results' = c.results
               /\ phase' = c.phase
    /\ UNCHANGED <<args, lines, idx, targets, trace, queue, running, futures,
                   success_results, failed_results, written>>

\* the `with` block may be left: shutdown(wait=True) has joined the workers
PoolIdle(q, busy) == q = <<>> /\ busy = {}

\* as_completed has yielded every future; the executor is shut down
EndPass ==
    /\ phase = "collect"
    /\ yielded = targets
    /\ PoolIdle(queue, running)
    /\ phase' = "aggregate"
    /\ UNCHANGED <<args, lines, idx, targets, trace, queue, running, futures,
                   yielded, results, success_results, failed_results, written>>

\* future.result() re-raised the task's exception: the `with` block joins the
\* workers, then the exception leaves main
Crash ==
    /\ phase = "unwinding"
    /\ PoolIdle(queue, running)
    /\ phase' = "crashed"
    /\ UNCHANGED <<args, lines, idx, targets, trace, queue, running, futures,
                   yielded, results, success_results, failed_results, written>>

----------------------------------------------------------------------------
(* Result processing of main *)

\* r[1] >= args.min, r[1] <= args.max on latencies in microseconds
InBounds(r, lo, hi) ==
    /\ lo = None \/ (r.latency # None /\ r.latency[1] >= lo[1])
    /\ hi = None \/ (r.latency # None /\ r.latency[1] <= hi[1])

RECURSIVE SelectSeq2(_, _, _, _)
\* [r for r in results if r[2] == "Success" and <min test> and <max test>]
SelectSeq2(res, lo, hi, i) ==
    IF i > Len(res) THEN <<>>
    ELSE IF res[i].status = "Success" /\ InBounds(res[i], lo, hi)
    THEN <<res[i]>> \o SelectSeq2(res, lo, hi, i + 1)
    ELSE SelectSeq2(res, lo, hi, i + 1)

RECURSIVE FailedOf(_, _)
\* [r for r in results if r[2] != "Success"]
FailedOf(res, i) ==
    IF i > Len(res) THEN <<>>
    ELSE IF res[i].status # "Success"
    THEN <<res[i]>> \o FailedOf(res, i + 1)
    ELSE FailedOf(res, i + 1)

\* an unstable sort: r goes before the items of equal key
InsertBeforeEqual(sorted, r) ==
    LET k == Cardinality({i \in DOMAIN sorted : sorted[i].latency[1] < r.latency[1]})
    IN  SubSeq(sorted, 1, k) \o <<r>> \o SubSeq(sorted, k + 1, Len(sorted))

\* where a stable sort puts r among items already in order: after every item
\* whose key is not greater
InsertAfterEqual(sorted, r) ==
    LET k == Cardinality({i \in DOMAIN sorted : sorted[i].latency[1] <= r.latency[1]})
    IN  SubSeq(sorted, 1, k) \o <<r>> \o SubSeq(sorted, k + 1, Len(sorted))

RECURSIVE SortedByLatency(_)
\* sorted(seq, key=lambda x: x[1])
SortedByLatency(seq) ==
    IF seq = <<>> THEN <<>>
    ELSE InsertAfterEqual(SortedByLatency(SubSeq(seq, 1, Len(seq) - 1)), seq[Len(seq)])

\* success_results after lines 193-198
RankedSuccess(res, lo, hi, top) ==
    SliceTo(SortedByLatency(SelectSeq2(res, lo, hi, 1)), top)

Aggregate ==
    /\ phase = "aggregate"
    /\ success_results' = RankedSuccess(results, args.min, args.max, args.top)
    /\ failed_results' = FailedOf(results, 1)
    /\ phase' = "write"
    /\ UNCHANGED <<args, lines, idx, targets, trace, queue, running, futures,
                   yielded, results, written>>

\* write_csv(args.output, ...), write_csv(args.failed, ...)
WriteReports ==
    /\ phase = "write"
    /\ written' = {"output", "failed"}
    /\ phase' = "done"
    /\ UNCHANGED <<args, lines, idx, targets, trace, queue, running, futures,
                   yielded, results, success_results, failed_results>>

----------------------------------------------------------------------------
(* Specifications *)

\* the lines of the full runs
RunVocabulary ==
    { <<V4(Net10 + 1), WS>>,                          \* 10.0.0.1
      <<V6(1), WS>>,                                  \* 2001:db8::1
      <<V4(Net10 + 1), COLON, Num(8443), WS>>,        \* 10.0.0.1:8443
      <<Name(1), COLON, Num(8443), WS>> }             \* example.com:8443

\* main after ip.txt has been read, for every mode, with and without --verbose
Init ==
    /\ phase = "parse"
    /\ \E mode \in {"udp", "tcp", "ping"}, verbose \in BOOLEAN :
           args = [DefaultArgs EXCEPT !.mode = mode, !.verbose = verbose]
    /\ lines \in SeqsUpTo(RunVocabulary, MaxRunLines)
    /\ Idle

Scheduling(E) ==
    Submit \/ StartTask \/ FinishTask(E) \/ BeginCollect \/ Collect \/ EndPass \/ Crash

Next == NextResolve \/ Scheduling(SchedEnvs) \/ Aggregate \/ WriteReports

Spec == Init /\ [][Next]_vars

\* one target, every mode, every environment of a probe
InitProbe ==
    /\ phase = "parse"
    /\ \E mode \in {"udp", "tcp", "ping"}, verbose \in BOOLEAN :
           args = [DefaultArgs EXCEPT !.mode = mode, !.verbose = verbose]
    /\ lines \in {<<l>> : l \in RunVocabulary}
    /\ Idle

NextProbe == NextResolve \/ Scheduling(Envs) \/ Aggregate \/ WriteReports

SpecProbe == InitProbe /\ [][NextProbe]_vars

\* the environments of the aggregation runs
AggEnvs ==
    {Env("ok", "ok", "reply", e) : e \in {10000, 20004, 50000}}
    \cup {Env("ok", "ok", "timeout", TIMEOUT_US + 300)}

\* the orders in which as_completed can have yielded the futures of S
Orders(S) == {q \in [1..Cardinality(S) -> S] : Range(q) = S}

\* main on leaving the `with` block of a TCP run over n bare addresses, for
\* every outcome of every probe, every completion order and every --top,
\* --min and --max
InitAggregate ==
    /\ phase = "aggregate"
    /\ \E top \in {-1, 0, 1, 2, 10}, lo \in {None, Some(20000)}, hi \in {None, Some(20000)} :
           args = [DefaultArgs EXCEPT !.top = top, !.min = lo, !.max = hi]
    /\ \E n \in 0..MaxResults : lines = [i \in 1..n |-> <<V4(Net10 + i), WS>>]
    /\ idx = Len(lines) + 1
    /\ trace = [i \in 1..Len(lines) |->
                   LET r == parse_line(lines[i], {}, args.ipv6_limit,
                                       MainDefaultPort(args), <<>>)
                   IN  [status |-> r.status, added |-> r.added]]
    /\ targets = UNION {trace[i].added : i \in DOMAIN trace}
    /\ queue = <<>>
    /\ running = {}
    /\ \E envOf \in [targets -> AggEnvs] :
           futures = [t \in targets |->
                         run_test(t.ip, args.mode, t.port, args.verbose, envOf[t])]
    /\ yielded = targets
    /\ \E order \in Orders(targets) :
           results = [i \in 1..Len(order) |-> futures[order[i]].out[1]]
    /\ success_results = <<>>
    /\ failed_results = <<>>
    /\ written = {}

NextAggregate == Aggregate \/ WriteReports

SpecAggregate == InitAggregate /\ [][NextAggregate]_vars

----------------------------------------------------------------------------
(* Properties *)

Min(a, b) == IF a < b THEN a ELSE b
Max(a, b) == IF a > b THEN a ELSE b

\* the outcomes the probers have returned so far
Outcomes == {futures[t].out[1] : t \in {u \in DOMAIN futures : futures[u].kind = "returned"}}

PassLeft == phase \notin {"parse", "submit", "collect"}

\* C1: the scheduling pass collects exactly one outcome per dispatched target
\* (as many outcomes as targets, each finished task's outcome exactly once),
\* and aggregation and report writing do not start while a dispatched probe
\* has no outcome yet.  Stated of every way main leaves the pass.
C1_OneOutcomePerTarget ==
    /\ PassLeft =>
           /\ Len(results) = Cardinality(targets)
           /\ \A t \in targets :
                  /\ t \in DOMAIN futures
                  /\ futures[t].kind = "returned"
                  /\ Cardinality({i \in DOMAIN results : results[i] = futures[t].out[1]})
                         = Cardinality({u \in targets : futures[u] = futures[t]})
    /\ phase \in {"aggregate", "write", "done"} => PoolIdle(queue, running)

\* C4: a task that fails (an exception in the prober or in run_test) aborts
\* neither its siblings nor the run: its future holds an outcome, with status
\* Error when the prober could not probe, and main goes on to aggregation.
C4_TaskFailureIsolated ==
    /\ \A t \in DOMAIN futures : futures[t].kind = "returned"
    /\ \A t \in DOMAIN futures :
           args.mode \in {"udp", "tcp"} /\ ~IsAddressLiteral(t.ip)
               => futures[t].out[1].status = "Error"
    /\ phase \notin {"unwinding", "crashed"}

\* C9: the probes in flight (started, without an outcome yet) never number
\* more than the worker limit, however many targets were submitted.
C9_InFlightBounded == Cardinality(running) <= MAX_WORKERS

\* C9 witness: the pool is full while a submitted task waits
C9_PoolFullTaskWaiting == Cardinality(running) = MAX_WORKERS /\ queue # <<>>

C5_NearTimeoutIsTimeout ==
    \A o \in Outcomes :
        o.latency # None /\ o.latency[1] >= TIMEOUT_THRESHOLD_US => o.status = "Timeout"

\* the candidate successes of the collected results, by position
Candidates ==
    {i \in DOMAIN results :
        results[i].status = "Success" /\ InBounds(results[i], args.min, args.max)}

\* the position in results of an entry of success_results (labels are unique
\* in a TCP run)
PosOf(o) == CHOOSE i \in DOMAIN results : results[i] = o

\* what C6 says of success_results apart from its length: only candidate
\* successes, each at most once, in non-decreasing latency order, ties in
\* collection order, and no candidate left out is faster than one kept
RankedAndStable ==
    /\ \A i \in DOMAIN success_results :
           \E j \in Candidates : results[j] = success_results[i]
    /\ \A i, j \in DOMAIN success_results :
           i < j =>
               /\ success_results[i] # success_results[j]
               /\ success_results[i].latency[1] <= success_results[j].latency[1]
               /\ success_results[i].latency = success_results[j].latency
                      => PosOf(success_results[i]) < PosOf(success_results[j])
    /\ \A j \in Candidates :
           results[j] \notin Range(success_results)
               => \A i \in DOMAIN success_results :
                      success_results[i].latency[1] <= results[j].latency[1]

\* C6 as stated: ranked_success holds only in-bounds successes, sorted by
\* latency with ties in collection order, and its length is
\* min(top_n, number of filtered successes) for every integer top_n.
C6_RankedSuccessEveryTop ==
    phase \in {"write", "done"} =>
        /\ RankedAndStable
        /\ Len(success_results) = Min(args.top, Cardinality(Candidates))

\* C6 amended: the same, with length min(top_n, count) for top_n >= 0 and
\* max(0, count + top_n) for top_n < 0 (the slice drops the last -top_n).
C6_RankedSuccess ==
    phase \in {"write", "done"} =>
        /\ RankedAndStable
        /\ Len(success_results) =
               IF args.top >= 0
               THEN Min(args.top, Cardinality(Candidates))
               ELSE Max(0, Cardinality(Candidates) + args.top)

\* C6 witness: three candidates, two kept by --top 2, tied in latency
C6_TieTruncated ==
    /\ phase = "write"
    /\ Cardinality(Candidates) = 3
    /\ Len(success_results) = 2
    /\ success_results[1].latency = success_results[2].latency

\* the stripped text of line i
Line(i) == Strip(lines[i])

BracketPort(i) ==
    /\ Len(Line(i)) = 5
    /\ Line(i)[1] = LB /\ Line(i)[2].k = "v6" /\ Line(i)[3] = RB
    /\ Line(i)[4] = COLON /\ Line(i)[5].k = "num"

BracketOnly(i) ==
    Len(Line(i)) = 3 /\ Line(i)[1] = LB /\ Line(i)[2].k = "v6" /\ Line(i)[3] = RB

\* C3: a line `[addr]:port` yields exactly the target (addr, port) and a line
\* `[addr]` exactly (addr, default_port), brackets removed.
C3_BracketedIPv6Resolved ==
    \A i \in DOMAIN trace :
        /\ BracketPort(i) =>
               trace[i].added = {Target(<<Line(i)[2]>>, Line(i)[5].v)}
        /\ BracketOnly(i) =>
               trace[i].added = {Target(<<Line(i)[2]>>, MainDefaultPort(args))}

\* a line that cannot be classified or parsed: a "/" line that is no network,
\* an address:port line whose port is no number
BadCidr(i) == HasSlash(Line(i)) /\ ~IsNetworkLiteral(Line(i))
BadPort(i) ==
    /\ ~HasSlash(Line(i))
    /\ CountColons(Line(i)) = 1
    /\ Line(i)[Len(Line(i))].k # "num"

ValidCidr(i) == HasSlash(Line(i)) /\ IsNetworkLiteral(Line(i))

\* the usable hosts of a network of the model's size: all but the network
\* and broadcast addresses (IPv4), all but the network address (IPv6), and
\* every address of a two-address or one-address network
UsableHosts(net) ==
    IF net.hostbits <= 1 THEN Pow2(net.hostbits)
    ELSE IF net.version = 4 THEN Pow2(net.hostbits) - 2
    ELSE Pow2(net.hostbits) - 1

\* the number of targets C8 gives a network; a network of more than 2^16
\* addresses has more usable hosts than any limit of the model
ExpansionCount(net, limit) ==
    IF net.version = 4 \/ limit = 0 THEN UsableHosts(net)
    ELSE IF net.hostbits > 16 THEN limit
    ELSE Min(UsableHosts(net), limit)

\* C8: a valid CIDR line expands to the network's usable host count (IPv4),
\* or to min(usable hosts, ipv6_sample_limit) first hosts when the limit is
\* nonzero and to every usable host when it is 0 (IPv6); 10.0.0.0/30 with
\* default port 443 yields exactly (10.0.0.1, 443) and (10.0.0.2, 443).
C8_CidrExpansionCount ==
    \A i \in DOMAIN trace :
        ValidCidr(i) =>
            LET net == ip_network(Line(i))
                n == ExpansionCount(net, args.ipv6_limit)
            IN  /\ Cardinality(trace[i].added) = n
                /\ \A t \in trace[i].added :
                       /\ t.port = MainDefaultPort(args)
                       /\ t.ip[1].v > net.base - (IF net.hostbits <= 1 THEN 1 ELSE 0)
                       /\ t.ip[1].v <= net.base + n
                /\ Line(i) = <<V4(Net10), SLASH, Num(30)>> =>
                       trace[i].added = {Target(<<V4(Net10 + 1)>>, 443),
                                         Target(<<V4(Net10 + 2)>>, 443)}

\* a line with an explicit port suffix
ExplicitPort(i) ==
    \/ BracketPort(i)
    \/ ~HasSlash(Line(i)) /\ CountColons(Line(i)) = 1

\* C10: in a run configured with --port P, every target resolved from a line
\* without an explicit port has port P.
C10_ConfiguredPortUsed ==
    \A i \in DOMAIN trace :
        ~ExplicitPort(i) => \A t \in trace[i].added : t.port = args.port

====
